---------------------------- MODULE Spec2Model ----------------------------
(***************************************************************************)
(* A model of taskfile.Reader (src/taskfile/reader.go): the recursive,    *)
(* concurrent construction of the Taskfile graph by Reader.Read and        *)
(* Reader.include, and the loading of a node's content through the cache   *)
(* and the trust prompts by Reader.loadNodeContent.                        *)
(*                                                                         *)
(* One goroutine of include's errgroup is a "branch" <<p, i>>: the i-th    *)
(* include declaration of the Taskfile at location p.  The call            *)
(* r.include(r.node) made by Read is the branch Root.                      *)
(*                                                                         *)
(* Granularity.  A goroutine's steps are separate actions wherever it      *)
(* reads or writes state another goroutine may still change: the vertex    *)
(* insert, the load, taking the prompt mutex, the prompt's answer, the     *)
(* edge insert.  Steps that touch only state no other goroutine changes    *)
(* any more are taken together with the goroutine's next step: the cache   *)
(* writes after an accepted prompt (one location is loaded by one          *)
(* goroutine only), the parse after the load, g.Wait()'s return once       *)
(* every goroutine of the group has returned, and the critical section     *)
(* between r.graph.Lock() and its deferred Unlock().                       *)
(***************************************************************************)
EXTENDS Integers, Sequences, FiniteSets, TLC

\* Locations are 1..NumLocs; location 1 is the Reader's root node.
NumLocs == 3
\* The size of a run's input: the include declarations of the Taskfiles
\* read, the failures the environment injects (an include that does not
\* resolve, a read or a fetch that fails other than by a timeout, a
\* Taskfile that does not parse or has no version, a cache write that
\* fails), the Reader options set, and the cache entries present when the
\* run starts.
MaxSize == 3
\* The distinct byte contents a remote location may serve.
NumContents == 2

Locs == 1..NumLocs
RootLoc == 1
NoLoc == 0
Contents == 1..NumContents
NoBytes == 0
NoChecksum == 0

\* Node.Remote(): the root is a local file, every location it or another
\* Taskfile includes is a remote URL.
Remote(l) == l > RootLoc
RemoteLocs == {l \in Locs : Remote(l)}

\* checksum(b) of reader.go:420: a digest of the bytes, never the empty
\* string that stands for "no checksum recorded".
ChecksumOf(b) == 10 + b

Root == <<0, 0>>
BranchIds == {Root} \cup (Locs \X (1..MaxSize))
Pairs == Locs \X Locs
Free == <<-1, -1>>

NoErr == [kind |-> "nil", src |-> NoLoc, dst |-> NoLoc]
Err(k, l) == [kind |-> k, src |-> l, dst |-> NoLoc]
CycleErr(s, d) == [kind |-> "TaskfileCycleError", src |-> s, dst |-> d]

VARIABLES
    opts,         \* Reader.offline, Reader.download, Reader.promptFunc # nil
    files,        \* what readNode found at a location once it has read it
    vertex,       \* graph vertices: "absent", "nil" (Taskfile: nil) or "set"
    edgeData,     \* graph edges: <<u, v>> -> Properties.Data (<< >> = no edge)
    edgeWeight,   \* graph edges: <<u, v>> -> Properties.Weight
    br,           \* the branches: where each goroutine stands
    grpErr,       \* the errgroup of include(l): its first error
    promptMutex,  \* Reader.promptMutex: the branch holding it
    cache,        \* the Cache: location -> cached content and checksum
    readRes,      \* what Read returned
    size,         \* the size of the input met so far
    log           \* observations: what the run did, for the properties

vars == <<opts, files, vertex, edgeData, edgeWeight, br, grpErr, promptMutex,
          cache, readRes, size, log>>

---------------------------------------------------------------------------
\* The include declarations a Taskfile may hold.  res is how the
\* declaration resolves in lines 245-281: "ok" (NewNode returns the node of
\* target), "resolve" (cache.Err, ResolveEntrypoint or ResolveDir returns
\* an error: the three `return err` of lines 259-271), "node" (NewNode
\* returns an error, e.g. the file does not exist).  Optional is read on
\* line 277 only, after NewNode failed: a declaration that reaches NewNode
\* and gets its node behaves the same with the flag set or not.
OkDecls == [target : Locs, optional : {FALSE}, res : {"ok"}]
BadDecls == [target : {NoLoc}, optional : BOOLEAN, res : {"resolve", "node"}]
Decls == OkDecls \cup BadDecls

DeclKey(d) ==
    (IF d.res = "ok" THEN d.target
     ELSE IF d.res = "resolve" THEN NumLocs + 1 ELSE NumLocs + 2) * 2
    + (IF d.optional THEN 1 ELSE 0)

\* The declarations of a Taskfile are kept in one order (goroutines are
\* started for all of them before any is waited for, so their order in the
\* file decides nothing).
Sorted(s) == \A i \in 1..(Len(s) - 1) : DeclKey(s[i]) <= DeclKey(s[i + 1])
NBad(s) == Cardinality({i \in 1..Len(s) : s[i].res # "ok"})

IncludeSeqs(n) == UNION {[1..k -> Decls] : k \in 0..n}

NoFile == [st |-> "unread", incs |-> << >>]

\* A Taskfile's share of the input's size: its declarations, the ones that
\* do not resolve once more, and its own defect.
FileSize(f) == Len(f.incs) + NBad(f.incs) + (IF f.st = "ok" THEN 0 ELSE 1)

\* The Taskfiles yaml.Unmarshal may produce at a location: a Taskfile with
\* a version ("ok"), one without ("noversion"), or a decode error.
FileChoices(room) ==
    {f \in [st : {"ok", "noversion", "decode"}, incs : IncludeSeqs(room)] :
        /\ Sorted(f.incs)
        /\ f.st = "decode" => f.incs = << >>
        /\ FileSize(f) <= room}

---------------------------------------------------------------------------
\* The graph (github.com/dominikbraun/graph, directed, PreventCycles).
HasEdge(u, v) == edgeData[<<u, v>>] # << >>

RECURSIVE ReachFrom(_, _)
ReachFrom(front, seen) ==
    LET next == {v \in Locs : \E u \in front : HasEdge(u, v)} \ seen
    IN IF next = {} THEN seen ELSE ReachFrom(next, seen \cup next)

\* Is there a path of at least one edge from u to v?
Path(u, v) == v \in ReachFrom({u}, {})

\* graph.CreatesCycle: adding u -> v closes a cycle.
CreatesCycle(u, v) == u = v \/ Path(v, u)

---------------------------------------------------------------------------
NoEntry == [content |-> NoBytes, sum |-> NoChecksum]

\* A cache entry as an earlier run of loadNodeContent leaves it when its
\* writes succeed: nothing, or a content with its own checksum.
CacheEntries == {NoEntry} \cup {[content |-> c, sum |-> ChecksumOf(c)] : c \in Contents}

Count(S) == Cardinality(S)
OptsSize(o) == Count({k \in {"offline", "download", "prompt"} : o[k]})
CacheSize(c) == Count({l \in RemoteLocs : c[l] # NoEntry})

Idle == [pc |-> "idle", node |-> NoLoc, bytes |-> NoBytes, err |-> NoErr]

\* NewReader (reader.go:57-75) with its options applied, and Read (194-199)
\* about to call r.include(r.node).
Init ==
    /\ opts \in [offline : BOOLEAN, download : BOOLEAN, prompt : BOOLEAN]
    /\ cache \in [RemoteLocs -> CacheEntries]
    /\ size = OptsSize(opts) + CacheSize(cache)
    /\ size < MaxSize
    /\ files = [l \in Locs |-> NoFile]
    /\ vertex = [l \in Locs |-> "absent"]
    /\ edgeData = [e \in Pairs |-> << >>]
    /\ edgeWeight = [e \in Pairs |-> 0]
    /\ br = [b \in BranchIds |->
               IF b = Root THEN [Idle EXCEPT !.pc = "start", !.node = RootLoc]
               ELSE Idle]
    /\ grpErr = [l \in Locs |-> NoErr]
    /\ promptMutex = Free
    /\ readRes = [done |-> FALSE, err |-> NoErr, graph |-> FALSE]
    /\ log = [loads |-> [l \in Locs |-> 0],
              netReads |-> [l \in Locs |-> 0],
              cacheReads |-> [l \in Locs |-> 0],
              cacheWrites |-> [l \in Locs |-> 0],
              prompts |-> [l \in Locs |-> << >>],
              fetch |-> [l \in Locs |-> "none"],
              fetched |-> [l \in Locs |-> NoBytes],
              answer |-> [l \in Locs |-> "none"],
              ret |-> [l \in Locs |-> FALSE],
              got |-> [l \in Locs |-> NoBytes],
              via |-> [l \in Locs |-> "none"],
              loadErr |-> [l \in Locs |-> NoErr],
              before |-> [l \in Locs |-> NoEntry],
              rejected |-> {}]

Parent(b) == b[1]
DeclOf(b) == files[b[1]].incs[b[2]]
Children(l) == {<<l, i>> : i \in 1..Len(files[l].incs)}

\* A goroutine's function returns e (reader.go:245-317): errgroup keeps the
\* first non-nil error.
GroupErr(b, e) ==
    IF b = Root THEN grpErr
    ELSE [grpErr EXCEPT ![Parent(b)] = IF @ = NoErr THEN e ELSE @]

\* Mutant: Read returns r.graph with the error.
ReadResultKeepsGraph(b, e) ==
    IF b = Root THEN [done |-> TRUE, err |-> e, graph |-> TRUE]
    ELSE readRes

\* Read (reader.go:194-199): include(r.node) returned e.
ReadResult(b, e) ==
    IF b = Root THEN [done |-> TRUE, err |-> e, graph |-> e = NoErr]
    ELSE readRes

BranchReturn(b, e) ==
    /\ br' = [br EXCEPT ![b] = [@ EXCEPT !.pc = "done", !.err = e]]
    /\ grpErr' = GroupErr(b, e)
    /\ readRes' = ReadResult(b, e)


---------------------------------------------------------------------------
\* Lines 288-316, between r.graph.Lock() and the deferred Unlock(): the
\* edge u -> v is created with this include, or this include is appended
\* to the edge's data; an edge that would close a cycle is refused by the
\* graph (graph.ErrEdgeCreatesCycle) and becomes a TaskfileCycleError.
\* Mutant: the edge's data is replaced, not appended to.
NewEdgeDataReplaced(b, u, v) == <<b>>

NewEdgeData(b, u, v) ==
    IF HasEdge(u, v) THEN Append(edgeData[<<u, v>>], b) ELSE <<b>>

NewEdgeWeight(b, u, v) ==
    IF HasEdge(u, v) THEN Len(edgeData[<<u, v>>]) + 1 ELSE 1

\* Mutant: only a self-include is refused.
EdgeRefusedSelfOnly(u, v) == ~HasEdge(u, v) /\ u = v

EdgeRefused(u, v) == ~HasEdge(u, v) /\ CreatesCycle(u, v)

\* Mutant: Source and Destination are swapped.
EdgeErrorSwapped(u, v) == CycleErr(v, u)

\* Lines 310-315.
EdgeError(u, v) == CycleErr(u, v)

\* Mutant: the edge is left out when the included Taskfile is not read yet.
InsertEdgeWhenRead(b, v, lg) ==
    LET u == Parent(b) IN
    IF EdgeRefused(u, v)
    THEN /\ BranchReturn(b, EdgeError(u, v))
         /\ log' = [lg EXCEPT !.rejected = @ \cup {<<u, v>>}]
         /\ UNCHANGED <<edgeData, edgeWeight>>
    ELSE IF vertex[v] = "nil"
    THEN /\ BranchReturn(b, NoErr)
         /\ log' = lg
         /\ UNCHANGED <<edgeData, edgeWeight>>
    ELSE /\ edgeData' = [edgeData EXCEPT ![<<u, v>>] = NewEdgeData(b, u, v)]
         /\ edgeWeight' = [edgeWeight EXCEPT ![<<u, v>>] = NewEdgeWeight(b, u, v)]
         /\ BranchReturn(b, NoErr)
         /\ log' = lg

InsertEdge(b, v, lg) ==
    LET u == Parent(b) IN
    IF EdgeRefused(u, v)
    THEN /\ BranchReturn(b, EdgeError(u, v))
         /\ log' = [lg EXCEPT !.rejected = @ \cup {<<u, v>>}]
         /\ UNCHANGED <<edgeData, edgeWeight>>
    ELSE /\ edgeData' = [edgeData EXCEPT ![<<u, v>>] = NewEdgeData(b, u, v)]
         /\ edgeWeight' = [edgeWeight EXCEPT ![<<u, v>>] = NewEdgeWeight(b, u, v)]
         /\ BranchReturn(b, NoErr)
         /\ log' = lg

\* Lines 214-228: include adds the vertex of location l (Taskfile: nil), or
\* finds it present (graph.ErrVertexAlreadyExists) and returns nil.
\* Mutant: the "already exists" answer is not acted on.
VertexExistsIgnored(l) == FALSE

VertexExists(l) == vertex[l] # "absent"

\* Line 277: an include that NewNode cannot make a node for is skipped when
\* it is optional.
\* Mutant: the Optional flag is not looked at.
OptionalSwallowsAlways(d) == d.res = "node"

OptionalSwallows(d) == d.res = "node" /\ d.optional

\* Lines 245-286, then 214-228 in the call r.include(includeNode): the
\* goroutine resolves its include declaration to a node and include adds
\* the vertex.  When the vertex is there already include returns nil and
\* the goroutine goes on to the edge (288-316).
IncludeEnter(b) ==
    /\ br[b].pc = "start"
    /\ LET d == IF b = Root THEN [target |-> RootLoc, optional |-> FALSE, res |-> "ok"]
                ELSE DeclOf(b)
       IN
       IF d.res = "resolve"
       THEN /\ BranchReturn(b, Err("ResolveError", Parent(b)))
            /\ UNCHANGED <<vertex, edgeData, edgeWeight, log>>
       ELSE IF d.res = "node"
       THEN /\ BranchReturn(b, IF OptionalSwallows(d) THEN NoErr
                               ELSE Err("NodeError", Parent(b)))
            /\ UNCHANGED <<vertex, edgeData, edgeWeight, log>>
       ELSE IF VertexExists(d.target)
       THEN /\ InsertEdge(b, d.target, log)
            /\ UNCHANGED vertex
       ELSE /\ vertex' = [vertex EXCEPT ![d.target] = "nil"]
            /\ br' = [br EXCEPT ![b] = [@ EXCEPT !.pc = "load", !.node = d.target]]
            /\ UNCHANGED <<edgeData, edgeWeight, grpErr, readRes, log>>
    /\ UNCHANGED <<opts, files, promptMutex, cache, size>>

\* Mutant: the schema version is not looked at.
VersionMissingIgnored(f) == FALSE

\* Lines 345-348: the Taskfile parsed and has no version.
VersionMissing(f) == f.st = "noversion"

\* Mutant: the Taskfile read is not stored in the vertex.
AttachSkipped(l) == vertex

\* Line 232: vertex.Taskfile is set to the Taskfile readNode returned.
Attach(l) == [vertex EXCEPT ![l] = "set"]

\* readNode after loadNodeContent returned bytes (reader.go:330-363), then
\* include's lines 232-318: the Taskfile is attached to the vertex and one
\* goroutine is started per include declaration.  f0 is the size of what
\* the caller met earlier in the same step.
ReadNodeRest(b, f0) ==
    LET l == br[b].node IN
    \E f \in FileChoices(MaxSize - size - f0) :
        /\ files' = [files EXCEPT ![l] = f]
        /\ size' = size + f0 + FileSize(f)
        /\ IF f.st = "decode"
           THEN BranchReturn(b, Err("TaskfileDecodeError", l)) /\ UNCHANGED vertex
           ELSE IF VersionMissing(f)
           THEN BranchReturn(b, Err("TaskfileVersionCheckError", l)) /\ UNCHANGED vertex
           ELSE /\ vertex' = Attach(l)
                /\ br' = [x \in BranchIds |->
                            IF x = b THEN [br[b] EXCEPT !.pc = "wait"]
                            ELSE IF x[1] = l /\ x[2] \in 1..Len(f.incs)
                            THEN [Idle EXCEPT !.pc = "start"]
                            ELSE br[x]]
                /\ UNCHANGED <<grpErr, readRes>>

\* Mutant: include returns nil when readNode failed.
LoadFailSwallowed(b, e, f0) ==
    /\ BranchReturn(b, NoErr)
    /\ size' = size + f0
    /\ UNCHANGED <<files, vertex>>

\* loadNodeContent returned the error e (readNode, lines 325-328, and
\* include, lines 232-235, pass it on).
LoadFail(b, e, f0) ==
    /\ BranchReturn(b, e)
    /\ size' = size + f0
    /\ UNCHANGED <<files, vertex>>

Got(lg, l, bytes, via) == [lg EXCEPT !.got[l] = bytes, !.via[l] = via, !.ret[l] = TRUE]
Failed(lg, l, e) == [lg EXCEPT !.loadErr[l] = e, !.ret[l] = TRUE]
Met(lg, l, what) == [lg EXCEPT !.fetch[l] = what, !.loads[l] = @ + 1,
                               !.netReads[l] = @ + 1, !.before[l] = cache[l]]

---------------------------------------------------------------------------
\* loadNodeContent (reader.go:366-454).

\* cache.read(node): the cached content, or os.ErrNotExist.
CacheHas(l) == cache[l].content # NoBytes

\* Mutant: a changed checksum is not looked for.
PromptForUntrustedOnly(l, b) ==
    IF cache[l].sum = NoChecksum THEN "untrusted" ELSE "none"

\* Lines 419-430: which prompt the fetched bytes call for.
PromptFor(l, b) ==
    IF cache[l].sum = NoChecksum THEN "untrusted"
    ELSE IF ChecksumOf(b) # cache[l].sum THEN "changed"
    ELSE "none"

\* Mutant: a local node is looked for in the cache like a remote one.
LoadLocalReadsCache(b) ==
    LET l == br[b].node
        lg == [log EXCEPT !.loads[l] = @ + 1, !.cacheReads[l] = @ + 1]
    IN
    /\ ~Remote(l)
    /\ \/ /\ log' = Got(lg, l, 1, "file")
          /\ ReadNodeRest(b, 0)
       \/ /\ size < MaxSize
          /\ log' = Failed(lg, l, Err("ReadError", l))
          /\ LoadFail(b, Err("ReadError", l), 1)

\* Lines 367-371: a local node is read directly.
LoadLocal(b) ==
    LET l == br[b].node
        lg == [log EXCEPT !.loads[l] = @ + 1]
    IN
    /\ ~Remote(l)
    /\ \/ /\ log' = Got(lg, l, 1, "file")
          /\ ReadNodeRest(b, 0)
       \/ /\ size < MaxSize
          /\ log' = Failed(lg, l, Err("ReadError", l))
          /\ LoadFail(b, Err("ReadError", l), 1)

\* Mutant: offline, the node is read all the same.
LoadOfflineFetches(b) ==
    LET l == br[b].node IN
    /\ Remote(l) /\ opts.offline
    /\ \E c \in Contents :
          /\ log' = Got([Met(log, l, "ok") EXCEPT !.fetched[l] = c], l, c, "net")
          /\ ReadNodeRest(b, 0)

\* Lines 378-389: offline, only the cache is read.
LoadOffline(b) ==
    LET l == br[b].node
        lg == [log EXCEPT !.loads[l] = @ + 1, !.cacheReads[l] = @ + 1,
                          !.before[l] = cache[l]]
    IN
    /\ Remote(l) /\ opts.offline
    /\ IF CacheHas(l)
       THEN /\ log' = Got(lg, l, cache[l].content, "cache")
            /\ ReadNodeRest(b, 0)
       ELSE /\ log' = Failed(lg, l, Err("TaskfileCacheNotFoundError", l))
            /\ LoadFail(b, Err("TaskfileCacheNotFoundError", l), 0)

\* Lines 394-413: node.Read timed out.
TimeoutError(l) ==
    IF opts.download THEN Err("TaskfileNetworkTimeoutError", l)
    ELSE Err("TaskfileNetworkTimeoutError{CheckedCache}", l)

\* Mutant: the download option is not looked at after a timeout.
FetchTimeoutFallsBack(b) ==
    LET l == br[b].node
        rd == [Met(log, l, "timeout") EXCEPT !.cacheReads[l] = @ + 1]
    IN
    IF ~CacheHas(l)
    THEN /\ log' = Failed(rd, l, TimeoutError(l))
         /\ LoadFail(b, TimeoutError(l), 0)
    ELSE /\ log' = Got(rd, l, cache[l].content, "cache")
         /\ ReadNodeRest(b, 0)

FetchTimeout(b) ==
    LET l == br[b].node
        lg == Met(log, l, "timeout")
        rd == [lg EXCEPT !.cacheReads[l] = @ + 1]
    IN
    /\ IF opts.download
       THEN /\ log' = Failed(lg, l, TimeoutError(l))
            /\ LoadFail(b, TimeoutError(l), 0)
       ELSE IF ~CacheHas(l)
       THEN /\ log' = Failed(rd, l, TimeoutError(l))
            /\ LoadFail(b, TimeoutError(l), 0)
       ELSE /\ log' = Got(rd, l, cache[l].content, "cache")
            /\ ReadNodeRest(b, 0)

\* Lines 394, 414-416: node.Read failed otherwise.
FetchError(b) ==
    LET l == br[b].node IN
    /\ size < MaxSize
    /\ log' = Failed(Met(log, l, "error"), l, Err("FetchError", l))
    /\ LoadFail(b, Err("FetchError", l), 1)

\* Lines 394, 417-432, 453: node.Read returned the bytes c.
FetchOk(b, c) ==
    LET l == br[b].node
        lg == [Met(log, l, "ok") EXCEPT !.fetched[l] = c]
    IN
    IF PromptFor(l, c) = "none"
    THEN /\ log' = Got(lg, l, c, "net")
         /\ ReadNodeRest(b, 0)
    ELSE /\ log' = lg
         /\ br' = [br EXCEPT ![b] = [@ EXCEPT !.pc = "prompt", !.bytes = c]]
         /\ UNCHANGED <<files, vertex, grpErr, readRes, size>>

LoadOnline(b) ==
    LET l == br[b].node IN
    /\ Remote(l) /\ ~opts.offline
    /\ \/ FetchTimeout(b)
       \/ FetchError(b)
       \/ \E c \in Contents : FetchOk(b, c)

LoadNodeContent(b) ==
    /\ br[b].pc = "load"
    /\ \/ LoadLocal(b)
       \/ LoadOffline(b)
       \/ LoadOnline(b)
    /\ UNCHANGED <<opts, edgeData, edgeWeight, promptMutex, cache>>

\* Mutant: r.promptf is called without the prompt mutex being free.
PromptLockUnguarded(b) ==
    LET l == br[b].node IN
    /\ br[b].pc = "prompt"
    /\ promptMutex' = b
    /\ br' = [br EXCEPT ![b] = [@ EXCEPT !.pc = "prompting"]]
    /\ log' = [log EXCEPT !.prompts[l] = Append(@, PromptFor(l, br[b].bytes))]
    /\ UNCHANGED <<opts, files, vertex, edgeData, edgeWeight, grpErr, cache,
                   readRes, size>>

\* Lines 432-436: the prompt mutex is taken and r.promptf is called.
PromptLock(b) ==
    LET l == br[b].node IN
    /\ br[b].pc = "prompt"
    /\ promptMutex = Free
    /\ promptMutex' = b
    /\ br' = [br EXCEPT ![b] = [@ EXCEPT !.pc = "prompting"]]
    /\ log' = [log EXCEPT !.prompts[l] = Append(@, PromptFor(l, br[b].bytes))]
    /\ UNCHANGED <<opts, files, vertex, edgeData, edgeWeight, grpErr, cache,
                   readRes, size>>

\* promptf (reader.go:207-212): without a promptFunc every prompt is
\* accepted.
PromptAnswers == IF opts.prompt THEN {TRUE, FALSE} ELSE {TRUE}

\* Mutant: the checksum is stored and the file is not cached.
PersistChecksumOnly(b, lg) ==
    LET l == br[b].node
        c == br[b].bytes
    IN
    /\ cache' = [cache EXCEPT ![l].sum = ChecksumOf(c)]
    /\ log' = Got([lg EXCEPT !.cacheWrites[l] = @ + 1], l, c, "net")
    /\ ReadNodeRest(b, 0)

\* Lines 441-453: after an accepted prompt the checksum is stored, then
\* the file is cached; either write may fail.
Persist(b, lg) ==
    LET l == br[b].node
        c == br[b].bytes
        e == Err("CacheWriteError", l)
    IN
    \/ /\ size < MaxSize
       /\ log' = Failed(lg, l, e)
       /\ LoadFail(b, e, 1)
       /\ UNCHANGED cache
    \/ /\ size < MaxSize
       /\ cache' = [cache EXCEPT ![l].sum = ChecksumOf(c)]
       /\ log' = Failed([lg EXCEPT !.cacheWrites[l] = @ + 1], l, e)
       /\ LoadFail(b, e, 1)
    \/ /\ cache' = [cache EXCEPT ![l] = [content |-> c, sum |-> ChecksumOf(c)]]
       /\ log' = Got([lg EXCEPT !.cacheWrites[l] = @ + 2], l, c, "net")
       /\ ReadNodeRest(b, 0)

\* Mutant: the checksum is stored before the prompt's answer is looked at.
PromptReturnStoresFirst(b) ==
    LET l == br[b].node IN
    /\ br[b].pc = "prompting"
    /\ promptMutex = b
    /\ promptMutex' = Free
    /\ \E accepted \in PromptAnswers :
          IF accepted
          THEN Persist(b, [log EXCEPT !.answer[l] = "accepted"])
          ELSE /\ log' = Failed([log EXCEPT !.answer[l] = "rejected",
                                           !.cacheWrites[l] = @ + 1], l,
                                Err("TaskfileNotTrustedError", l))
               /\ LoadFail(b, Err("TaskfileNotTrustedError", l), 0)
               /\ cache' = [cache EXCEPT ![l].sum = ChecksumOf(br[b].bytes)]
    /\ UNCHANGED <<opts, edgeData, edgeWeight>>

\* Mutant: the prompt mutex is not released.
PromptReturnKeepsMutex(b) ==
    LET l == br[b].node IN
    /\ br[b].pc = "prompting"
    /\ promptMutex = b
    /\ UNCHANGED promptMutex
    /\ \E accepted \in PromptAnswers :
          IF accepted
          THEN Persist(b, [log EXCEPT !.answer[l] = "accepted"])
          ELSE /\ log' = Failed([log EXCEPT !.answer[l] = "rejected"], l,
                                Err("TaskfileNotTrustedError", l))
               /\ LoadFail(b, Err("TaskfileNotTrustedError", l), 0)
               /\ UNCHANGED cache
    /\ UNCHANGED <<opts, edgeData, edgeWeight>>

\* Lines 436-439: promptf returns and the mutex is released; a rejected
\* prompt is a TaskfileNotTrustedError.
PromptReturn(b) ==
    LET l == br[b].node IN
    /\ br[b].pc = "prompting"
    /\ promptMutex = b
    /\ promptMutex' = Free
    /\ \E accepted \in PromptAnswers :
          IF accepted
          THEN Persist(b, [log EXCEPT !.answer[l] = "accepted"])
          ELSE /\ log' = Failed([log EXCEPT !.answer[l] = "rejected"], l,
                                Err("TaskfileNotTrustedError", l))
               /\ LoadFail(b, Err("TaskfileNotTrustedError", l), 0)
               /\ UNCHANGED cache
    /\ UNCHANGED <<opts, edgeData, edgeWeight>>

---------------------------------------------------------------------------
\* g.Wait() (reader.go:320-321) returns once every goroutine of the group
\* has returned, with the group's first error.  Read returns it (194-199);
\* a goroutine passes an error on (284-286) and otherwise goes on to the
\* edge (288-316).
\* Mutant: Wait returns as soon as the group has an error.
GroupDoneOnError(l) ==
    \/ \A x \in Children(l) : br[x].pc = "done"
    \/ grpErr[l] # NoErr

\* Lines 237, 320-321: an errgroup.Group without a context; Wait blocks
\* until every goroutine started with Go has returned.
GroupDone(l) == \A x \in Children(l) : br[x].pc = "done"

IncludeReturn(b) ==
    LET l == br[b].node
        e == grpErr[l]
    IN
    /\ br[b].pc = "wait"
    /\ GroupDone(l)
    /\ IF b = Root \/ e # NoErr
       THEN /\ BranchReturn(b, e)
            /\ UNCHANGED <<edgeData, edgeWeight, log>>
       ELSE InsertEdge(b, l, log)
    /\ UNCHANGED <<opts, files, vertex, promptMutex, cache, size>>

Next ==
    \E b \in BranchIds :
        \/ IncludeEnter(b)
        \/ LoadNodeContent(b)
        \/ PromptLock(b)
        \/ PromptReturn(b)
        \/ IncludeReturn(b)

Spec == Init /\ [][Next]_vars

\* The Go scheduler runs a goroutine that can run, and every fetch and
\* every prompt callback returns: a step that stays possible is taken.
FairSpec == Spec /\ WF_vars(Next)


---------------------------------------------------------------------------
\* What the properties speak of.

Acyclic == \A u \in Locs : ~Path(u, u)

\* The Taskfile read at u declares an include that resolves to v.
Inc(u, v) ==
    /\ files[u].st = "ok"
    /\ \E i \in DOMAIN files[u].incs :
          files[u].incs[i].res = "ok" /\ files[u].incs[i].target = v

RECURSIVE IncReach(_, _)
IncReach(front, seen) ==
    LET next == {v \in Locs : \E u \in front : Inc(u, v)} \ seen
    IN IF next = {} THEN seen ELSE IncReach(next, seen \cup next)

\* Some Taskfile read includes itself, directly or through others.
IncCycle == \E u \in Locs : u \in IncReach({u}, {})

Started(b) == b # Root /\ br[b].pc # "idle"
ReadOk == readRes.done /\ readRes.err = NoErr
IsCycleErr(e) == e.kind = "TaskfileCycleError"

\* Every document loaded and parsed and every include resolved: the only
\* errors of the run are refused edges.
AllLoaded == \A b \in BranchIds : br[b].err = NoErr \/ IsCycleErr(br[b].err)

\* The include declarations of u that resolve to v, as the branches that
\* carry them.
DeclsTo(u, v) ==
    IF files[u].st # "ok" THEN {}
    ELSE {b \in Children(u) : DeclOf(b).res = "ok" /\ DeclOf(b).target = v}

Range(s) == {s[i] : i \in DOMAIN s}

---------------------------------------------------------------------------
\* C1: in every reachable state the graph has no directed cycle, self-loops
\* included, and an edge whose insertion was refused for closing a cycle is
\* not in the graph.
C1_GraphAcyclic ==
    /\ Acyclic
    /\ \A e \in log.rejected : ~HasEdge(e[1], e[2])

\* C1 witness: an edge u -> v was refused while v reaches u over edges of
\* the graph.
C1_Witness ==
    \E e \in log.rejected : e[1] # e[2] /\ Path(e[2], e[1])

\* C2: when every document loaded and parsed and the Taskfiles read hold an
\* include cycle, Read returns a TaskfileCycleError, never success, and the
\* error's Source and Destination are an include edge whose insertion the
\* graph refused.
C2_CycleReported ==
    (readRes.done /\ AllLoaded /\ IncCycle) =>
        /\ IsCycleErr(readRes.err)
        /\ <<readRes.err.src, readRes.err.dst>> \in log.rejected
        /\ Inc(readRes.err.src, readRes.err.dst)
        /\ ~HasEdge(readRes.err.src, readRes.err.dst)

\* C2 witness: Read returned the cycle error of an include between two
\* different documents.
C2_Witness ==
    /\ readRes.done /\ AllLoaded /\ IncCycle
    /\ IsCycleErr(readRes.err)
    /\ readRes.err.src # readRes.err.dst

\* C3: a location is loaded at most once in a run; a cycle error is raised
\* only when the Taskfiles read hold an include cycle; and when Read returns
\* the graph and two documents both include d, d was loaded exactly once,
\* has its vertex with its Taskfile, and both edges to d exist.
C3_DiamondDedup ==
    /\ \A l \in Locs : log.loads[l] <= 1
    /\ \A b \in BranchIds : IsCycleErr(br[b].err) => IncCycle
    /\ ReadOk =>
         \A u, w, d \in Locs :
            (u # w /\ Inc(u, d) /\ Inc(w, d)) =>
                /\ log.loads[d] = 1
                /\ vertex[d] = "set"
                /\ HasEdge(u, d) /\ HasEdge(w, d)

\* C3 witness: Read returned the graph of Taskfiles in which two documents
\* include a third.
C3_Witness ==
    /\ ReadOk
    /\ \E u, w, d \in Locs :
          /\ u # w /\ d # u /\ d # w
          /\ Inc(u, d) /\ Inc(w, d)
          /\ HasEdge(u, d) /\ HasEdge(w, d)

\* C4: in every reachable state an edge's weight is the length of its data,
\* its data holds include declarations of its source that resolve to its
\* destination, none twice; and when Read returns the graph, the data of
\* the edge u -> v holds every such declaration of u.
C4_EdgeAggregation ==
    /\ \A e \in Pairs :
          /\ edgeWeight[e] = Len(edgeData[e])
          /\ Cardinality(Range(edgeData[e])) = Len(edgeData[e])
          /\ Range(edgeData[e]) \subseteq DeclsTo(e[1], e[2])
    /\ ReadOk => \A e \in Pairs : Range(edgeData[e]) = DeclsTo(e[1], e[2])

\* C4 witness: Read returned a graph with an edge made of two or more
\* include declarations.
C4_Witness ==
    /\ ReadOk
    /\ \E e \in Pairs : Len(edgeData[e]) >= 2 /\ edgeWeight[e] >= 2

\* The only defects of the run's input are optional includes of kind
\* `kinds` that do not resolve.
OnlyOptionalDefects(kinds) ==
    /\ log.rejected = {}
    /\ \A l \in Locs : log.loadErr[l] = NoErr /\ files[l].st \in {"ok", "unread"}
    /\ \A b \in BranchIds :
          (Started(b) /\ DeclOf(b).res # "ok") =>
              DeclOf(b).optional /\ DeclOf(b).res \in kinds

\* C5 as claimed: an optional include that does not resolve, whatever the
\* step that fails, is skipped and Read succeeds.
C5_OptionalSwallowsAny ==
    (readRes.done /\ OnlyOptionalDefects({"resolve", "node"})) => readRes.err = NoErr

\* C5 amended: an optional include for which NewNode fails returns nil and
\* makes no vertex and no edge, and Read succeeds when such includes are the
\* input's only defects; the same include not optional, and an include
\* whose template, entrypoint or directory does not resolve (optional or
\* not), returns its error, and Read then fails.
C5_OptionalNodeOnly ==
    /\ \A b \in BranchIds :
          (Started(b) /\ br[b].pc = "done") =>
              LET d == DeclOf(b) IN
              /\ (d.res = "node" /\ d.optional) =>
                    /\ br[b].err = NoErr
                    /\ br[b].node = NoLoc
                    /\ \A e \in Pairs : b \notin Range(edgeData[e])
              /\ (d.res = "node" /\ ~d.optional) => br[b].err.kind = "NodeError"
              /\ d.res = "resolve" => br[b].err.kind = "ResolveError"
    /\ (readRes.done /\ OnlyOptionalDefects({"node"})) => readRes.err = NoErr
    /\ (readRes.done /\ \E b \in BranchIds :
            Started(b) /\ DeclOf(b).res # "ok"
            /\ ~(DeclOf(b).res = "node" /\ DeclOf(b).optional))
         => readRes.err # NoErr

\* C5 witness: Read returned the graph although an optional include found
\* no node, and a sibling include of the same Taskfile has its edge.
C5_Witness ==
    /\ ReadOk
    /\ \E b, c \in BranchIds :
          /\ Started(b) /\ Started(c) /\ Parent(b) = Parent(c)
          /\ DeclOf(b).res = "node" /\ DeclOf(b).optional
          /\ DeclOf(c).res = "ok"
          /\ c \in Range(edgeData[<<Parent(c), DeclOf(c).target>>])


\* The prompts the fetched bytes of l call for, from the checksum recorded
\* before the fetch.
PromptsDue(l) ==
    IF log.before[l].sum = NoChecksum THEN <<"untrusted">>
    ELSE IF ChecksumOf(log.fetched[l]) # log.before[l].sum THEN <<"changed">>
    ELSE << >>

FullEntry(c) == [content |-> c, sum |-> ChecksumOf(c)]

\* C6: offline, no node.Read of a remote location is made, with or without
\* a cache entry, and the load of a remote location without cached content
\* fails with TaskfileCacheNotFoundError.
C6_Offline ==
    opts.offline =>
        \A l \in RemoteLocs :
            /\ log.netReads[l] = 0
            /\ log.fetch[l] = "none"
            /\ (log.ret[l] /\ log.before[l].content = NoBytes) =>
                   log.loadErr[l] = Err("TaskfileCacheNotFoundError", l)

\* C6 witness: offline, the load of an uncached remote location returned.
C6_Witness ==
    /\ opts.offline
    /\ \E l \in RemoteLocs :
          /\ log.ret[l] /\ log.before[l].content = NoBytes
          /\ log.loadErr[l].kind = "TaskfileCacheNotFoundError"

\* C7: a location is prompted for at most once in a run, and once the load
\* of a location whose fetch succeeded has returned, the prompts issued for
\* it are: one "untrusted" when no checksum was recorded, one "changed" when
\* the recorded checksum differs from the fetched bytes', none when they
\* are equal; however many branches include the location.
C7_PromptSelection ==
    \A l \in Locs :
        /\ Len(log.prompts[l]) <= 1
        /\ log.loads[l] <= 1
        /\ (log.fetch[l] = "ok" /\ log.ret[l]) => log.prompts[l] = PromptsDue(l)

\* C7 witness: two branches include the same remote location, whose fetch
\* brought bytes with another checksum than the recorded one; the load has
\* returned after one "changed" prompt.
C7_Witness ==
    \E l \in RemoteLocs :
        /\ log.fetch[l] = "ok" /\ log.ret[l]
        /\ log.prompts[l] = <<"changed">>
        /\ \E u \in Locs : Cardinality(DeclsTo(u, l)) >= 2
        /\ \A b \in BranchIds : Started(b) => br[b].pc = "done"

\* C8: a rejected prompt makes the load fail with TaskfileNotTrustedError
\* for the location, and the cache entry is as it was before the fetch:
\* nothing was written.
C8_RejectLeavesCache ==
    \A l \in Locs :
        log.answer[l] = "rejected" =>
            /\ log.ret[l]
            /\ log.loadErr[l] = Err("TaskfileNotTrustedError", l)
            /\ log.cacheWrites[l] = 0
            /\ cache[l] = log.before[l]

\* C8 witness: a "changed" prompt was rejected for a location that had a
\* cache entry.
C8_Witness ==
    \E l \in RemoteLocs :
        /\ log.answer[l] = "rejected"
        /\ log.prompts[l] = <<"changed">>
        /\ log.before[l] # NoEntry

\* C9: when the load returns the fetched bytes after an accepted prompt, the
\* cache holds their checksum and the bytes; when the fetched bytes have
\* the recorded checksum, they are returned and nothing is written to the
\* cache.
C9_AcceptPersists ==
    \A l \in RemoteLocs :
        /\ (log.answer[l] = "accepted" /\ log.ret[l] /\ log.loadErr[l] = NoErr) =>
              /\ log.got[l] = log.fetched[l]
              /\ log.via[l] = "net"
              /\ cache[l] = FullEntry(log.fetched[l])
        /\ (log.fetch[l] = "ok" /\ log.before[l].sum = ChecksumOf(log.fetched[l])) =>
              /\ log.ret[l] /\ log.loadErr[l] = NoErr
              /\ log.got[l] = log.fetched[l]
              /\ log.cacheWrites[l] = 0
              /\ cache[l] = log.before[l]

\* C9 witness: without a prompt function, a prompt was accepted and the
\* cache entry of the location replaced by the fetched bytes.
C9_Witness ==
    /\ ~opts.prompt
    /\ \E l \in RemoteLocs :
          /\ log.answer[l] = "accepted" /\ log.ret[l] /\ log.loadErr[l] = NoErr
          /\ log.before[l] # NoEntry
          /\ cache[l] # log.before[l]

\* C10: after a timeout of the fetch: with download set the load fails with
\* TaskfileNetworkTimeoutError and the cache is not read; without it, the
\* cached bytes are returned when there are any, and the load fails with
\* the error marked CheckedCache when there are none.  Any other fetch
\* error is returned and the cache is not read.
C10_TimeoutFallback ==
    \A l \in RemoteLocs :
        /\ log.fetch[l] = "timeout" =>
              /\ log.ret[l]
              /\ IF opts.download
                 THEN /\ log.loadErr[l] = Err("TaskfileNetworkTimeoutError", l)
                      /\ log.cacheReads[l] = 0
                 ELSE IF log.before[l].content = NoBytes
                 THEN log.loadErr[l] = Err("TaskfileNetworkTimeoutError{CheckedCache}", l)
                 ELSE /\ log.loadErr[l] = NoErr
                      /\ log.got[l] = log.before[l].content
                      /\ log.via[l] = "cache"
        /\ log.fetch[l] = "error" =>
              /\ log.ret[l]
              /\ log.loadErr[l] = Err("FetchError", l)
              /\ log.cacheReads[l] = 0

\* C10 witness: with download set, the fetch of a cached location timed out.
C10_Witness ==
    /\ opts.download
    /\ \E l \in RemoteLocs :
          /\ log.fetch[l] = "timeout"
          /\ log.before[l].content # NoBytes
          /\ log.loadErr[l].kind = "TaskfileNetworkTimeoutError"

---------------------------------------------------------------------------
\* The branch that added the vertex of l and read its Taskfile.
Loader(b, l) == br[b].node = l

\* C11: a Taskfile that parses and has no version makes the branch that
\* read it return TaskfileVersionCheckError; the Taskfile is not attached to
\* its vertex, no goroutine is started for any of its includes, no edge
\* leaves its vertex, and a location it includes has a vertex only when
\* the include of another Taskfile made it.
C11_VersionGate ==
    \A l \in Locs :
        files[l].st = "noversion" =>
            /\ \E b \in BranchIds :
                  /\ Loader(b, l) /\ br[b].pc = "done"
                  /\ br[b].err = Err("TaskfileVersionCheckError", l)
            /\ vertex[l] = "nil"
            /\ \A x \in BranchIds : x[1] = l => br[x] = Idle
            /\ \A v \in Locs : ~HasEdge(l, v)
            /\ \A i \in DOMAIN files[l].incs :
                  LET v == files[l].incs[i].target IN
                  (v # NoLoc /\ vertex[v] # "absent") =>
                      \/ v = RootLoc
                      \/ \E c \in BranchIds :
                            /\ Started(c) /\ Parent(c) # l
                            /\ DeclOf(c).target = v

\* C11 witness: a Taskfile without a version was read that includes a
\* location no other Taskfile includes; Read has returned.
C11_Witness ==
    /\ readRes.done
    /\ \E l \in Locs :
          /\ files[l].st = "noversion"
          /\ \E i \in DOMAIN files[l].incs :
                /\ files[l].incs[i].res = "ok"
                /\ vertex[files[l].incs[i].target] = "absent"

\* The branches whose prompt callback is executing.
Prompting == {b \in BranchIds : br[b].pc = "prompting"}

\* C12: at most one prompt callback is executing at any time; the branch
\* executing it holds the prompt mutex, and while it does no other branch
\* that needs a prompt can start its own.
C12_PromptSerialized ==
    /\ Cardinality(Prompting) <= 1
    /\ \A b \in BranchIds : br[b].pc = "prompting" <=> promptMutex = b
    /\ promptMutex # Free => \A b \in BranchIds : ~ENABLED PromptLock(b)

\* C12 witness: the prompt for one remote location is executing while a
\* concurrent branch that fetched another remote location waits for its
\* own prompt.
C12_Witness ==
    \E b, c \in BranchIds :
        /\ br[b].pc = "prompting" /\ br[c].pc = "prompt"
        /\ br[b].node # br[c].node
        /\ Remote(br[b].node) /\ Remote(br[c].node)

\* The error a returned branch b carries is one its own goroutine met: the
\* failure of its include to resolve, of its load or parse, of its edge, or
\* the error its own group's Wait returned.
OwnError(b) ==
    LET e == br[b].err
        l == br[b].node
    IN
    \/ /\ b # Root /\ DeclOf(b).res = "resolve"
       /\ e = Err("ResolveError", Parent(b))
    \/ /\ b # Root /\ DeclOf(b).res = "node"
       /\ e = Err("NodeError", Parent(b))
    \/ /\ b # Root /\ DeclOf(b).res = "ok"
       /\ e = CycleErr(Parent(b), DeclOf(b).target)
       /\ <<Parent(b), DeclOf(b).target>> \in log.rejected
    \/ /\ l # NoLoc
       /\ \/ e = log.loadErr[l]
          \/ files[l].st = "decode" /\ e = Err("TaskfileDecodeError", l)
          \/ files[l].st = "noversion" /\ e = Err("TaskfileVersionCheckError", l)
          \/ files[l].st = "ok" /\ e = grpErr[l]

\* The step a running branch can take next, whatever errors other branches
\* returned.
CanStep(b) ==
    CASE br[b].pc = "start" -> ENABLED IncludeEnter(b)
      [] br[b].pc = "load" -> ENABLED LoadNodeContent(b)
      [] br[b].pc = "prompt" -> promptMutex = Free => ENABLED PromptLock(b)
      [] br[b].pc = "prompting" -> ENABLED PromptReturn(b)
      [] br[b].pc = "wait" -> GroupDone(br[b].node) => ENABLED IncludeReturn(b)
      [] OTHER -> TRUE

C13_State ==
    /\ \A b \in BranchIds :
          (br[b].pc = "done" /\ br[b].node # NoLoc /\ files[br[b].node].st = "ok") =>
              \A x \in Children(br[b].node) : br[x].pc = "done"
    /\ readRes.done =>
          /\ \A b \in BranchIds : br[b].pc \in {"idle", "done"}
          /\ \A l \in Locs : files[l].st = "ok" =>
                \A x \in Children(l) : br[x].pc = "done"
          /\ promptMutex = Free
    /\ \A b \in BranchIds : CanStep(b)
    /\ \A b \in BranchIds :
          br[b].pc = "done" =>
              IF br[b].err # NoErr THEN OwnError(b)
              ELSE (b # Root /\ DeclOf(b).res = "ok") =>
                       b \in Range(edgeData[<<Parent(b), DeclOf(b).target>>])
    /\ \A l \in Locs :
          IF grpErr[l] = NoErr
          THEN \A x \in BranchIds : x[1] = l => br[x].err = NoErr
          ELSE \E x \in Children(l) : br[x].pc = "done" /\ br[x].err = grpErr[l]
    /\ (readRes.done /\ files[RootLoc].st = "ok") => readRes.err = grpErr[RootLoc]

C13_Step ==
    \A l \in Locs :
        /\ grpErr[l] # NoErr => grpErr'[l] = grpErr[l]
        /\ (grpErr[l] = NoErr /\ grpErr'[l] # NoErr) =>
              \E x \in Children(l) :
                  /\ br[x].pc # "done" /\ br'[x].pc = "done"
                  /\ br'[x].err = grpErr'[l]

Resolved(w) ==
    /\ vertex[w] = "set"
    /\ files[w].st = "ok"
    /\ \A c \in Children(w) :
          /\ br[c].pc = "done" /\ br[c].err = NoErr
          /\ DeclOf(c).res = "ok" =>
                c \in Range(edgeData[<<w, DeclOf(c).target>>])

\* The locations reachable from l over the includes read, l included.
Subgraph(l) == {l} \cup IncReach({l}, {})

\* The include call of branch b for the Taskfile it read has returned nil.
IncludeReturnedNil(b) ==
    /\ br[b].pc = "done" /\ br[b].node # NoLoc
    /\ files[br[b].node].st = "ok"
    /\ grpErr[br[b].node] = NoErr

\* The error of branch x is a failure of x itself, not one passed on from
\* its group.
Primary(x) ==
    /\ br[x].pc = "done" /\ br[x].err # NoErr
    /\ OwnError(x)
    /\ ~(br[x].node # NoLoc /\ files[br[x].node].st = "ok"
         /\ br[x].err = grpErr[br[x].node] /\ ~IsCycleErr(br[x].err))

C15_PartialGraphReturned ==
    (readRes.done /\ readRes.err # NoErr) => readRes.graph

\* C15 amended: Read returns the graph exactly when it returns no error;
\* with an error its caller gets nil, whatever vertices and edges the
\* Reader's graph holds.
C15_NilGraphOnError ==
    /\ ~readRes.done => ~readRes.graph /\ readRes.err = NoErr
    /\ readRes.done => (readRes.graph <=> readRes.err = NoErr)

\* C15 witness: Read returned an error and no graph, after edges had been
\* inserted and Taskfiles attached.
C15_Witness ==
    /\ readRes.done /\ readRes.err # NoErr /\ ~readRes.graph
    /\ \E e \in Pairs : HasEdge(e[1], e[2])
    /\ \E l \in RemoteLocs : vertex[l] = "set"

\* Every Taskfile read loaded and parsed, every include read resolved or
\* was an optional include without a node, and the includes read hold no
\* cycle.
SoundInput ==
    /\ \A l \in Locs : log.loadErr[l] = NoErr /\ files[l].st \in {"ok", "unread"}
    /\ \A b \in BranchIds :
          (Started(b) /\ DeclOf(b).res # "ok") =>
              DeclOf(b).res = "node" /\ DeclOf(b).optional
    /\ ~IncCycle

\* C16: when Read returns on such an input it returns the graph, whatever
\* the interleaving was, and the graph is the one the Taskfiles determine:
\* its vertices are the locations reachable from the root over resolved
\* includes, each with its Taskfile, and the data of the edge u -> v holds
\* each include of u that resolves to v once, and nothing else, with the
\* weight their number.
C16_SchedulingIndependent ==
    (readRes.done /\ SoundInput) =>
        /\ ReadOk /\ readRes.graph
        /\ \A l \in Locs :
              IF l \in Subgraph(RootLoc)
              THEN vertex[l] = "set" /\ log.loads[l] = 1
              ELSE vertex[l] = "absent" /\ log.loads[l] = 0
        /\ \A e \in Pairs :
              /\ Range(edgeData[e]) = DeclsTo(e[1], e[2])
              /\ Len(edgeData[e]) = Cardinality(DeclsTo(e[1], e[2]))
              /\ edgeWeight[e] = Cardinality(DeclsTo(e[1], e[2]))
              /\ HasEdge(e[1], e[2]) => e[1] \in Subgraph(RootLoc)

\* C16 witness: Read returned the graph of a sound input, and the data of
\* an edge made of two includes holds them in the other order than the
\* Taskfile does.
C16_Witness ==
    /\ readRes.done /\ SoundInput /\ ReadOk
    /\ \E e \in Pairs :
          /\ Len(edgeData[e]) = 2
          /\ edgeData[e][1][2] > edgeData[e][2][2]

\* Read has returned and nothing is left running.
AllReturned ==
    /\ readRes.done
    /\ \A b \in BranchIds : br[b].pc \in {"idle", "done"}
    /\ promptMutex = Free

\* C17: under fair scheduling Read eventually returns, with every branch
\* returned and the prompt mutex free, whatever the Taskfiles include.
C17_Termination == <>AllReturned

\* C17 witness: Read has returned on Taskfiles that include themselves or
\* each other, after two branches had asked for a prompt.
C17_Witness ==
    /\ AllReturned
    /\ IncCycle
    /\ Cardinality({l \in Locs : log.prompts[l] # << >>}) >= 2

\* The document of l failed to load or to parse.
DocFailed(l) ==
    \/ log.loadErr[l] # NoErr
    \/ files[l].st \in {"decode", "noversion"}

\* C18: when Read returns the graph every vertex has its Taskfile, and no
\* document failed to load or parse; so when one did, Read returns an
\* error, whichever branches found its vertex present and returned nil.
C18_NoMaskedFailure ==
    /\ ReadOk =>
          /\ \A l \in Locs : vertex[l] \in {"absent", "set"}
          /\ \A l \in Locs : ~DocFailed(l)
    /\ (readRes.done /\ \E l \in Locs : DocFailed(l)) => readRes.err # NoErr
    /\ \A l \in Locs :
          DocFailed(l) =>
              /\ vertex[l] = "nil"
              /\ \E b \in BranchIds :
                    Loader(b, l) /\ br[b].pc = "done" /\ br[b].err # NoErr

\* C18 witness: Read returned an error after the document of a location
\* failed, while another include of the same location had found the vertex
\* present, returned nil and inserted its edge.
C18_Witness ==
    /\ readRes.done /\ readRes.err # NoErr
    /\ \E l \in Locs, b \in BranchIds :
          /\ DocFailed(l)
          /\ Started(b) /\ ~Loader(b, l)
          /\ DeclOf(b).res = "ok" /\ DeclOf(b).target = l
          /\ br[b].pc = "done" /\ br[b].err = NoErr
          /\ b \in Range(edgeData[<<Parent(b), l>>])

\* C19: the load of a local location reads the file only: no cache read,
\* no cache write, no prompt; and a remote location served from the cache,
\* offline or after a timeout, gets the cached bytes with no prompt and
\* with the cache entry left as it was.
C19_CacheServedFrame ==
    /\ \A l \in Locs \ RemoteLocs :
          /\ log.cacheReads[l] = 0 /\ log.cacheWrites[l] = 0
          /\ log.netReads[l] = 0
          /\ log.prompts[l] = << >> /\ log.answer[l] = "none"
          /\ log.via[l] \in {"none", "file"}
    /\ \A l \in RemoteLocs :
          /\ log.via[l] = "cache" =>
                /\ opts.offline \/ (log.fetch[l] = "timeout" /\ ~opts.download)
                /\ log.got[l] = log.before[l].content
                /\ log.got[l] # NoBytes
                /\ log.prompts[l] = << >> /\ log.answer[l] = "none"
                /\ log.cacheWrites[l] = 0
                /\ cache[l] = log.before[l]
          /\ (log.ret[l] /\ log.before[l].content # NoBytes
                /\ (opts.offline \/ (log.fetch[l] = "timeout" /\ ~opts.download))) =>
                log.via[l] = "cache"

\* C19 witness: the local root was read from its file, and a remote
\* location whose fetch timed out was served from the cache.
C19_Witness ==
    /\ log.via[RootLoc] = "file"
    /\ \E l \in RemoteLocs :
          /\ log.via[l] = "cache" /\ log.fetch[l] = "timeout"
          /\ vertex[l] = "set"

\* The cache entry of l holds no checksum, or the checksum of the content
\* it holds.
EntryConsistent(l) ==
    cache[l].sum # NoChecksum =>
        /\ cache[l].content # NoBytes
        /\ cache[l].sum = ChecksumOf(cache[l].content)

\* C20 as claimed: once the load of a remote location has returned, with
\* the bytes or with an error, a checksum recorded for the location is the
\* checksum of the content cached for it.
C20_CacheConsistent ==
    \A l \in RemoteLocs : log.ret[l] => EntryConsistent(l)

\* C20 witness of the failure: the load returned the error of the cache
\* write after an accepted prompt, and the checksum recorded is the fetched
\* bytes' while the content cached is what it was before.
C20_Witness ==
    \E l \in RemoteLocs :
        /\ log.ret[l] /\ log.answer[l] = "accepted"
        /\ log.loadErr[l] = Err("CacheWriteError", l)
        /\ cache[l].sum = ChecksumOf(log.fetched[l])
        /\ cache[l].content = log.before[l].content
        /\ ~EntryConsistent(l)

===========================================================================
